---- MODULE Spec2Model ----
(***************************************************************************)
(* Model of npu_tester (src/main.cpp): one-time setup of the instruction   *)
(* and weight streams, then the per-sample DMA protocol, polling and       *)
(* classification.  The program counter pc holds the source line of the    *)
(* next statement of main() to execute.                                    *)
(*                                                                         *)
(* 64-bit unsigned words are four 16-bit limbs, so that shifts and         *)
(* additions wrap modulo 2^64 exactly as uint64_t does.                    *)
(* Floats are modelled by integers; only their order and equality matter.  *)
(***************************************************************************)
EXTENDS Integers, Sequences, FiniteSets, TLC

VARIABLES
    pc,                     \* source line of the next statement of main()
    layers,                 \* cnpy::npz_t layers, in std::map iteration order
    dataset,                \* dataset["x"] (shape, data) and dataset["y"]
    core,                   \* size_t core
    it,                     \* layer iterator (1-based position in layers)
    offset,                 \* tiler loop variable
    n,                      \* sample loop variable
    cursor,                 \* per channel: source buffer write cursor, bytes
    srcmem,                 \* per channel: source buffer content, in elements
    dstmem,                 \* I/O destination buffer content, in floats
    regs,                   \* per channel: address/length/interrupt registers
    engine,                 \* per channel and direction: DMA engine state
    status,                 \* unsigned long status
    dst_length,             \* size_t dst_length
    results,                \* std::vector<float> results
    correct_classification, \* size_t correct_classification
    maxElementIndex,        \* int maxElementIndex
    calls,                  \* history: channel calls and clock reads of the current sample
    readLog                 \* history: per sample, whether the first index of the
                            \* largest value read from the destination is the label

vars == <<pc, layers, dataset, core, it, offset, n, cursor, srcmem, dstmem,
          regs, engine, status, dst_length, results, correct_classification,
          maxElementIndex, calls, readLog>>

----------------------------------------------------------------------------
(* Bounds of the model *)

MaxLayers  == 2   \* layers per network (setup specification)
MaxIn      == 2   \* rows of a weight matrix
MaxOut     == 3   \* columns of a weight matrix
MaxCore    == 4   \* parallelism factor
RunOut     == 3   \* outputs of the network that is run on the dataset
MaxSamples == 2   \* dataset entries
MaxVal     == 1   \* largest value the accelerator writes to the destination
EncSmall   == 2   \* encoder widths 0..EncSmall and 2^30-1-EncSmall..2^30-1

(* Program constants *)

CONFIG_SRC_ADDR == 806354944   \* 0x30100000
WEIGHT_SRC_ADDR == 806420480   \* 0x30110000
IO_SRC_ADDR     == 839974912   \* 0x32110000
IO_DST_ADDR     == 840105984   \* 0x32130000

Channels == {"config", "weight", "io"}

Min(a, b) == IF a < b THEN a ELSE b

----------------------------------------------------------------------------
(* uint64_t arithmetic on four 16-bit limbs, limb 0 the least significant *)

Limbs    == 0..3
LimbBase == 65536

\* the uint64_t holding the non-negative integer v (v < 2^31 in this model)
ToU64(v) ==
    [l \in Limbs |-> IF l = 0 THEN v % LimbBase
                     ELSE IF l = 1 THEN v \div LimbBase
                     ELSE 0]

\* w << k on uint64_t: bits shifted past bit 63 are lost
Shl(w, k) ==
    LET q == k \div 16
        r == k % 16
    IN  [l \in Limbs |->
            (IF l >= q THEN (w[l - q] * (2^r)) % LimbBase ELSE 0)
          + (IF l >= q + 1 THEN w[l - q - 1] \div (2^(16 - r)) ELSE 0)]

\* a + b on uint64_t: ripple carry, the carry out of limb 3 is lost
AddU64(a, b) ==
    LET s0 == a[0] + b[0]
        s1 == a[1] + b[1] + (s0 \div LimbBase)
        s2 == a[2] + b[2] + (s1 \div LimbBase)
        s3 == a[3] + b[3] + (s2 \div LimbBase)
    IN  [l \in Limbs |-> (CASE l = 0 -> s0 [] l = 1 -> s1 [] l = 2 -> s2 [] l = 3 -> s3)
                            % LimbBase]

\* bit i of the word w
WordBit(w, i) == (w[i \div 16] \div (2^(i % 16))) % 2

RECURSIVE FieldFrom(_, _, _)
FieldFrom(w, lo, hi) ==
    IF hi < lo THEN 0 ELSE WordBit(w, lo) + 2 * FieldFrom(w, lo + 1, hi)

\* the value of bits[hi:lo] of w (hi - lo < 31)
Field(w, hi, lo) == FieldFrom(w, lo, hi)

----------------------------------------------------------------------------
(* Instruction encoder, main.cpp lines 68-90 *)

\* lines 73-85: the activation code of the name captured by the regex
ActivationCode(result) ==
    IF result = "sigmoid" THEN 1
    ELSE IF result = "relu" THEN 2
    ELSE IF result = "softmax" THEN 3
    ELSE 0

EncodeShift33(layer_input_shape, layer_output_shape, activation) ==
    AddU64(AddU64(Shl(ToU64(layer_input_shape), 33),
                  Shl(ToU64(layer_output_shape), 4)),
           ToU64(activation))

\* line 90: (layer_input_shape << 34) + (layer_output_shape << 4) + activation_cast
EncodeInstruction(layer_input_shape, layer_output_shape, activation) ==
    AddU64(AddU64(Shl(ToU64(layer_input_shape), 34),
                  Shl(ToU64(layer_output_shape), 4)),
           ToU64(activation))

----------------------------------------------------------------------------
(* Mapped source buffer of a channel (dma.hpp, modelled from spec 4.1) *)

\* write the elements k, k+1, ... of vals one after the other from the cursor
\* on, each of width bytes: an element lands on the cell the cursor is at,
\* replacing what is there or extending the content, and the cursor moves on
WriteAll(buf, vals, k, width) ==
    LET start == buf.cursor \div width
        count == Len(vals) - (k - 1)
        len   == IF start + count > Len(buf.mem) THEN start + count ELSE Len(buf.mem)
    IN  [mem    |-> [i \in 1..len |->
                        IF i > start /\ i <= start + count
                        THEN vals[i - start + (k - 1)] ELSE buf.mem[i]],
         cursor |-> buf.cursor + width * count]

\* writeSourceUInt64 / writeSourceFloat applied to the sequence vals
WriteSource(ch, vals, width) ==
    LET buf == WriteAll([mem |-> srcmem[ch], cursor |-> cursor[ch]], vals, 1, width)
    IN  /\ srcmem' = [srcmem EXCEPT ![ch] = buf.mem]
        /\ cursor' = [cursor EXCEPT ![ch] = buf.cursor]

----------------------------------------------------------------------------
(* Weight tiler, main.cpp lines 96-107 *)

TileRangeNoShrink(c, shape1, off) == Min(c, shape1)

TileRangeCore(c, shape1, off) == c

\* line 99: std::min(std::min(core, shape[1]), shape[1] - offset)
TileRange(c, shape1, off) == Min(Min(c, shape1), shape1 - off)

BlockIndicesRowStride(shape0, shape1, off, range) ==
    [k \in 1..(shape0 * range) |->
        LET node == (k - 1) \div range
            i    == (k - 1) % range
        IN  node * shape0 + off + i]

\* lines 100-105: the indices of data read for the block at off, in order
BlockIndices(shape0, shape1, off, range) ==
    [k \in 1..(shape0 * range) |->
        LET node == (k - 1) \div range
            i    == (k - 1) % range
        IN  node * shape1 + off + i]

\* data[idx]; a read past the end of the array yields an unspecified value
ReadWeight(data, idx) ==
    IF idx < Len(data) THEN data[idx + 1] ELSE "undefined"

----------------------------------------------------------------------------
(* One-time setup, main.cpp lines 57-111 *)

\* line 58: config->writeSourceUInt64(layers.size())
WriteInstructionCount ==
    /\ pc = 58
    /\ WriteSource("config", <<ToU64(Len(layers))>>, 8)
    /\ it' = 1
    /\ pc' = 61
    /\ UNCHANGED <<layers, dataset, core, offset, n, dstmem, regs, engine,
                   status, dst_length, results, correct_classification,
                   maxElementIndex, calls, readLog>>

LoadLayerSwappedShape ==
    /\ pc = 61
    /\ it <= Len(layers)
    /\ LET layer == layers[it]
           instruction == EncodeInstruction(layer.shape[2], layer.shape[1],
                                            ActivationCode(layer.match))
       IN  /\ WriteSource("config", <<instruction>>, 8)
           /\ dst_length' = layer.shape[2]
    /\ offset' = 0
    /\ pc' = 97
    /\ UNCHANGED <<layers, dataset, core, it, n, dstmem, regs, engine, status,
                   results, correct_classification,
                   maxElementIndex, calls, readLog>>

\* lines 61-96: next layer: encode and write its instruction, save dst_length
LoadLayer ==
    /\ pc = 61
    /\ it <= Len(layers)
    /\ LET layer == layers[it]
           instruction == EncodeInstruction(layer.shape[1], layer.shape[2],
                                            ActivationCode(layer.match))
       IN  /\ WriteSource("config", <<instruction>>, 8)
           /\ dst_length' = layer.shape[2]
    /\ offset' = 0
    /\ pc' = 97
    /\ UNCHANGED <<layers, dataset, core, it, n, dstmem, regs, engine, status,
                   results, correct_classification,
                   maxElementIndex, calls, readLog>>

\* lines 97-106: one iteration of the offset loop: emit one block of columns
TileBlock ==
    /\ pc = 97
    /\ offset < layers[it].shape[2]
    /\ LET layer == layers[it]
           range == TileRange(core, layer.shape[2], offset)
           idx   == BlockIndices(layer.shape[1], layer.shape[2], offset, range)
       IN  WriteSource("weight",
                       [k \in 1..Len(idx) |-> ReadWeight(layer.data, idx[k])], 4)
    /\ offset' = offset + core
    /\ UNCHANGED <<pc, layers, dataset, core, it, n, dstmem, regs, engine,
                   status, dst_length, results, correct_classification,
                   maxElementIndex, calls, readLog>>

\* line 97 (loop exit) and line 61 (it++)
TileDone ==
    /\ pc = 97
    /\ ~(offset < layers[it].shape[2])
    /\ it' = it + 1
    /\ pc' = 61
    /\ UNCHANGED <<layers, dataset, core, offset, n, cursor, srcmem, dstmem,
                   regs, engine, status, dst_length, results,
                   correct_classification, maxElementIndex, calls, readLog>>

\* line 61 (loop exit) and line 111: memset of dst_length * 4 bytes to zero
ResetDestination ==
    /\ pc = 61
    /\ ~(it <= Len(layers))
    /\ dstmem' = [k \in 1..Len(dstmem) |-> IF k <= dst_length THEN 0 ELSE dstmem[k]]
    /\ n' = 0
    /\ pc' = 119
    /\ UNCHANGED <<layers, dataset, core, it, offset, cursor, srcmem, regs,
                   engine, status, dst_length, results,
                   correct_classification, maxElementIndex, calls, readLog>>

----------------------------------------------------------------------------
(* DMA channel register protocol (dma.hpp, modelled from spec 4.2) *)

Directions == {"mm2s", "s2mm"}

\* Completed and Error are one state here: the program never tells them apart
EngineStates ==
    {"Reset", "Halted", "Configured", "Ready", "Running", "CompletedOrError"}

\* bit k of the status register value s
Bit(s, k) == (s \div (2^k)) % 2

\* the status bits that end a transfer: Halted, Idle, DMADecErr/SlvErr,
\* IOC_Irq, Err_Irq
DoneBits == {0, 1, 4, 12, 14}

\* what the engine is found to be doing when its status register reads s
Observe(state, s) ==
    IF state = "Running" /\ \E b \in DoneBits : Bit(s, b) = 1
    THEN "CompletedOrError"
    ELSE state

\* reset(), halt(), setInterrupt(), ready(): both directions of the channel
DmaControl(ch, state) ==
    engine' = [engine EXCEPT ![ch] = [d \in Directions |-> state]]

\* writing a length register starts the transfer of a ready engine
DmaArm(ch, dir) ==
    engine' = [engine EXCEPT ![ch][dir] =
                  IF @ = "Ready" THEN "Running" ELSE @]

Call(ch, op, arg) == calls' = Append(calls, [ch |-> ch, op |-> op, arg |-> arg])

----------------------------------------------------------------------------
(* Status polling, main.cpp lines 168-183, 192-207, 216-231, 238-253 *)

\* status & 1 << k
AndBit(s, k) == Bit(s, k) * (2^k)

KeepPollingLostNot(s) ==
    /\ (AndBit(s, 0) # 0)
    /\ ~(AndBit(s, 1) # 0)
    /\ ~(AndBit(s, 4) # 0)
    /\ ~(AndBit(s, 12) # 0)
    /\ ~(AndBit(s, 14) # 0)

KeepPollingNoBit12(s) ==
    /\ ~(AndBit(s, 0) # 0)
    /\ ~(AndBit(s, 1) # 0)
    /\ ~(AndBit(s, 4) # 0)
    /\ ~(AndBit(s, 14) # 0)

KeepPollingIgnoresErrors(s) ==
    /\ ~(AndBit(s, 0) # 0)
    /\ ~(AndBit(s, 1) # 0)
    /\ ~(AndBit(s, 12) # 0)

\* the condition of each do-while loop
KeepPolling(s) ==
    /\ ~(AndBit(s, 0) # 0)
    /\ ~(AndBit(s, 1) # 0)
    /\ ~(AndBit(s, 4) # 0)
    /\ ~(AndBit(s, 12) # 0)
    /\ ~(AndBit(s, 14) # 0)

\* every bit of a 31-bit value except the five done bits
OtherBits == (2^30 - 1) + 2^30 - (2^0 + 2^1 + 2^4 + 2^12 + 2^14)

\* the values a status register read may return
StatusValues ==
    {0, OtherBits, 2^0, 2^1 + OtherBits, 2^4, 2^12, 2^14 + OtherBits,
     2^0 + 2^1 + 2^4 + 2^12 + 2^14}

----------------------------------------------------------------------------
(* Per-sample protocol, main.cpp lines 119-291 *)

InitLineSwapped(ch) ==
    CASE ch = "config" -> 142 [] ch = "io" -> 147 [] ch = "weight" -> 152

\* the line of the first initialisation call of each channel
InitLine(ch) ==
    CASE ch = "config" -> 142 [] ch = "weight" -> 147 [] ch = "io" -> 152

AfterInitSkipIO(ch) ==
    CASE ch = "config" -> 147 [] ch = "weight" -> 158 [] ch = "io" -> 158

\* the line that follows the initialisation of each channel
AfterInit(ch) ==
    CASE ch = "config" -> 147 [] ch = "weight" -> 152 [] ch = "io" -> 158

\* the line of setSourceAddress for each channel
ArmLine(ch) ==
    CASE ch = "config" -> 162 [] ch = "io" -> 186 [] ch = "weight" -> 210

\* the line of the MM2S status read of each channel
PollLine(ch) ==
    CASE ch = "config" -> 171 [] ch = "io" -> 195 [] ch = "weight" -> 219

AfterPollSkipS2MM(ch) ==
    CASE ch = "config" -> 186 [] ch = "io" -> 210 [] ch = "weight" -> 255

\* the line that follows the MM2S polling loop of each channel
AfterPoll(ch) ==
    CASE ch = "config" -> 186 [] ch = "io" -> 210 [] ch = "weight" -> 241

SourceAddr(ch) ==
    CASE ch = "config" -> CONFIG_SRC_ADDR
      [] ch = "io"     -> IO_SRC_ADDR
      [] ch = "weight" -> WEIGHT_SRC_ADDR

\* input[n * shape[1] + i] for i < shape[1]
SampleInput(k) ==
    [i \in 1..dataset.x.shape[2] |-> dataset.x.data[k * dataset.x.shape[2] + i]]

LoadSampleNoReset ==
    /\ pc = 119
    /\ n < dataset.x.shape[1]
    /\ LET buf == WriteAll([mem |-> srcmem["io"], cursor |-> cursor["io"]],
                           SampleInput(n), 1, 4)
       IN  /\ srcmem' = [srcmem EXCEPT !["io"] = buf.mem]
           /\ cursor' = [cursor EXCEPT !["io"] = buf.cursor]
    /\ calls' = <<>>
    /\ pc' = 139
    /\ UNCHANGED <<layers, dataset, core, it, offset, n, dstmem, regs, engine,
                   status, dst_length, results, correct_classification,
                   maxElementIndex, readLog>>

\* lines 119-132: next sample: reset the I/O cursor and write the input
\* vector; the call history starts afresh with each sample
LoadSample ==
    /\ pc = 119
    /\ n < dataset.x.shape[1]
    /\ LET buf == WriteAll([mem |-> srcmem["io"], cursor |-> 0], SampleInput(n), 1, 4)
       IN  /\ srcmem' = [srcmem EXCEPT !["io"] = buf.mem]
           /\ cursor' = [cursor EXCEPT !["io"] = buf.cursor]
    /\ calls' = <<>>
    /\ pc' = 139
    /\ UNCHANGED <<layers, dataset, core, it, offset, n, dstmem, regs, engine,
                   status, dst_length, results, correct_classification,
                   maxElementIndex, readLog>>

\* line 139: start = now()
StartClock ==
    /\ pc = 139
    /\ Call("clock", "start", <<>>)
    /\ pc' = 142
    /\ UNCHANGED <<layers, dataset, core, it, offset, n, cursor, srcmem, dstmem,
                   regs, engine, status, dst_length, results,
                   correct_classification, maxElementIndex, readLog>>

\* lines 142, 147, 152: reset()
ResetChannel(ch) ==
    /\ pc = InitLine(ch)
    /\ DmaControl(ch, "Reset")
    /\ Call(ch, "reset", <<>>)
    /\ pc' = InitLine(ch) + 1
    /\ UNCHANGED <<layers, dataset, core, it, offset, n, cursor, srcmem, dstmem,
                   regs, status, dst_length, results, correct_classification,
                   maxElementIndex, readLog>>

\* lines 143, 148, 153: halt()
HaltChannel(ch) ==
    /\ pc = InitLine(ch) + 1
    /\ DmaControl(ch, "Halted")
    /\ Call(ch, "halt", <<>>)
    /\ pc' = InitLine(ch) + 2
    /\ UNCHANGED <<layers, dataset, core, it, offset, n, cursor, srcmem, dstmem,
                   regs, status, dst_length, results, correct_classification,
                   maxElementIndex, readLog>>

\* lines 144, 149, 154: setInterrupt(true, true, 0)
SetInterrupt(ch) ==
    /\ pc = InitLine(ch) + 2
    /\ DmaControl(ch, "Configured")
    /\ regs' = [regs EXCEPT ![ch].irqComplete = TRUE,
                            ![ch].irqError = TRUE,
                            ![ch].irqThreshold = 0]
    /\ Call(ch, "setInterrupt", <<TRUE, TRUE, 0>>)
    /\ pc' = InitLine(ch) + 3
    /\ UNCHANGED <<layers, dataset, core, it, offset, n, cursor, srcmem, dstmem,
                   status, dst_length, results, correct_classification,
                   maxElementIndex, readLog>>

\* lines 145, 150, 155: ready()
ReadyChannel(ch) ==
    /\ pc = InitLine(ch) + 3
    /\ DmaControl(ch, "Ready")
    /\ Call(ch, "ready", <<>>)
    /\ pc' = AfterInit(ch)
    /\ UNCHANGED <<layers, dataset, core, it, offset, n, cursor, srcmem, dstmem,
                   regs, status, dst_length, results, correct_classification,
                   maxElementIndex, readLog>>

\* line 158: io->setDestinationAddress(io_dst.addr)
SetDestinationAddress ==
    /\ pc = 158
    /\ regs' = [regs EXCEPT !["io"].dstAddr = IO_DST_ADDR]
    /\ Call("io", "setDestinationAddress", <<IO_DST_ADDR>>)
    /\ pc' = 159
    /\ UNCHANGED <<layers, dataset, core, it, offset, n, cursor, srcmem, dstmem,
                   engine, status, dst_length, results, correct_classification,
                   maxElementIndex, readLog>>

SetDestinationLengthFloats ==
    /\ pc = 159
    /\ regs' = [regs EXCEPT !["io"].dstLen = dst_length]
    /\ DmaArm("io", "s2mm")
    /\ Call("io", "setDestinationLength", <<dst_length>>)
    /\ pc' = 162
    /\ UNCHANGED <<layers, dataset, core, it, offset, n, cursor, srcmem, dstmem,
                   status, dst_length, results, correct_classification,
                   maxElementIndex, readLog>>

\* line 159: io->setDestinationLength(dst_length * 4)
SetDestinationLength ==
    /\ pc = 159
    /\ regs' = [regs EXCEPT !["io"].dstLen = dst_length * 4]
    /\ DmaArm("io", "s2mm")
    /\ Call("io", "setDestinationLength", <<dst_length * 4>>)
    /\ pc' = 162
    /\ UNCHANGED <<layers, dataset, core, it, offset, n, cursor, srcmem, dstmem,
                   status, dst_length, results, correct_classification,
                   maxElementIndex, readLog>>

\* lines 162, 186, 210: setSourceAddress(<channel>_src.addr)
SetSourceAddress(ch) ==
    /\ pc = ArmLine(ch)
    /\ regs' = [regs EXCEPT ![ch].srcAddr = SourceAddr(ch)]
    /\ Call(ch, "setSourceAddress", <<SourceAddr(ch)>>)
    /\ pc' = ArmLine(ch) + 1
    /\ UNCHANGED <<layers, dataset, core, it, offset, n, cursor, srcmem, dstmem,
                   engine, status, dst_length, results, correct_classification,
                   maxElementIndex, readLog>>

\* lines 163, 187, 211: setSourceLength(getCursor())
SetSourceLength(ch) ==
    /\ pc = ArmLine(ch) + 1
    /\ regs' = [regs EXCEPT ![ch].srcLen = cursor[ch]]
    /\ DmaArm(ch, "mm2s")
    /\ Call(ch, "setSourceLength", <<cursor[ch]>>)
    /\ pc' = PollLine(ch)
    /\ UNCHANGED <<layers, dataset, core, it, offset, n, cursor, srcmem, dstmem,
                   status, dst_length, results, correct_classification,
                   maxElementIndex, readLog>>

\* lines 169-183, 193-207, 217-231: one iteration of an MM2S polling loop
PollMM2S(ch) ==
    /\ pc = PollLine(ch)
    /\ \E s \in StatusValues :
          /\ status' = s
          /\ engine' = [engine EXCEPT ![ch]["mm2s"] = Observe(@, s)]
          /\ pc' = IF KeepPolling(s) THEN PollLine(ch) ELSE AfterPoll(ch)
    /\ UNCHANGED <<layers, dataset, core, it, offset, n, cursor, srcmem, dstmem,
                   regs, dst_length, results, correct_classification,
                   maxElementIndex, calls, readLog>>

\* the contents the destination buffer may have after the accelerator has
\* written into the first len bytes of it
Received(mem, len) ==
    {[k \in 1..Len(mem) |-> IF k <= len \div 4 THEN v[k] ELSE mem[k]] :
        v \in [1..Min(len \div 4, Len(mem)) -> 0..MaxVal]}

\* lines 239-253: one iteration of the S2MM polling loop of the I/O channel;
\* while the transfer runs the accelerator writes into the destination buffer
PollS2MM ==
    /\ pc = 241
    /\ \E s \in StatusValues :
          /\ status' = s
          /\ engine' = [engine EXCEPT !["io"]["s2mm"] = Observe(@, s)]
          /\ pc' = IF KeepPolling(s) THEN 241 ELSE 255
    /\ IF engine["io"]["s2mm"] = "Running"
       THEN dstmem' \in Received(dstmem, regs["io"].dstLen)
       ELSE dstmem' = dstmem
    /\ UNCHANGED <<layers, dataset, core, it, offset, n, cursor, srcmem,
                   regs, dst_length, results, correct_classification,
                   maxElementIndex, calls, readLog>>

\* lines 255-257: stop = now(); execution_time += stop - start
StopClock ==
    /\ pc = 255
    /\ Call("clock", "stop", <<>>)
    /\ pc' = 265
    /\ UNCHANGED <<layers, dataset, core, it, offset, n, cursor, srcmem, dstmem,
                   regs, engine, status, dst_length, results,
                   correct_classification, maxElementIndex, readLog>>

----------------------------------------------------------------------------
(* Classification, main.cpp lines 264-290 *)

RECURSIVE MaxElementFrom(_, _, _)
\* std::max_element: largest moves to first whenever *largest < *first
MaxElementFrom(v, first, largest) ==
    IF first > Len(v) THEN largest
    ELSE MaxElementFrom(v, first + 1, IF v[largest] < v[first] THEN first ELSE largest)

RECURSIVE MaxElementLastFrom(_, _, _)
MaxElementLastFrom(v, first, largest) ==
    IF first > Len(v) THEN largest
    ELSE MaxElementLastFrom(v, first + 1,
                            IF v[largest] <= v[first] THEN first ELSE largest)

MaxElementLast(v) == IF Len(v) = 0 THEN 0 ELSE MaxElementLastFrom(v, 2, 1) - 1

\* std::max_element(v.begin(), v.end()) - v.begin(); end() when v is empty
MaxElement(v) == IF Len(v) = 0 THEN 0 ELSE MaxElementFrom(v, 2, 1) - 1

\* the values fp[0] .. fp[dst_length - 1]
DestinationValues == [i \in 1..dst_length |-> dstmem[i]]

\* the smallest index (0-based) of a largest element of the non-empty vector v
FirstMaxIndex(v) ==
    CHOOSE i \in 0..(Len(v) - 1) :
        /\ \A j \in 1..Len(v) : v[j] <= v[i + 1]
        /\ \A j \in 1..i : v[j] < v[i + 1]

\* lines 265-267: push fp[0] .. fp[dst_length - 1] onto results
ExtractResults ==
    /\ pc = 265
    /\ results' = results \o DestinationValues
    /\ readLog' = Append(readLog, /\ dst_length > 0
                                  /\ FirstMaxIndex(DestinationValues) = dataset.y[n + 1])
    /\ pc' = 270
    /\ UNCHANGED <<layers, dataset, core, it, offset, n, cursor, srcmem, dstmem,
                   regs, engine, status, dst_length, correct_classification,
                   maxElementIndex, calls>>

\* lines 270-272: the class found and its comparison with the label
Classify ==
    /\ pc = 270
    /\ maxElementIndex' = MaxElement(results)
    /\ correct_classification' =
          IF maxElementIndex' = dataset.y[n + 1]
          THEN correct_classification + 1 ELSE correct_classification
    /\ pc' = 290
    /\ UNCHANGED <<layers, dataset, core, it, offset, n, cursor, srcmem, dstmem,
                   regs, engine, status, dst_length, results, calls, readLog>>

ClearResultsKept ==
    /\ pc = 290
    /\ n' = n + 1
    /\ pc' = 119
    /\ UNCHANGED <<layers, dataset, core, it, offset, cursor, srcmem, dstmem,
                   regs, engine, status, dst_length, results,
                   correct_classification, maxElementIndex, calls, readLog>>

\* line 290: results.clear(), and n++ of line 119
ClearResults ==
    /\ pc = 290
    /\ results' = <<>>
    /\ n' = n + 1
    /\ pc' = 119
    /\ UNCHANGED <<layers, dataset, core, it, offset, cursor, srcmem, dstmem,
                   regs, engine, status, dst_length, correct_classification,
                   maxElementIndex, calls, readLog>>

FinishEarly ==
    /\ pc = 119
    /\ ~(n + 1 < dataset.x.shape[1])
    /\ pc' = 298
    /\ UNCHANGED <<layers, dataset, core, it, offset, n, cursor, srcmem, dstmem,
                   regs, engine, status, dst_length, results,
                   correct_classification, maxElementIndex, calls, readLog>>

\* line 119 (loop exit): on to the report of lines 298-299
Finish ==
    /\ pc = 119
    /\ ~(n < dataset.x.shape[1])
    /\ pc' = 298
    /\ UNCHANGED <<layers, dataset, core, it, offset, n, cursor, srcmem, dstmem,
                   regs, engine, status, dst_length, results,
                   correct_classification, maxElementIndex, calls, readLog>>

----------------------------------------------------------------------------
(* Inputs and initial states *)

\* a layer of layers.npz: the activation name the regex captures from its
\* key, its shape, and its data (row-major, data[k] = k)
Layer(match, shape0, shape1) ==
    [match |-> match, shape |-> <<shape0, shape1>>,
     data  |-> [k \in 1..(shape0 * shape1) |-> k]]

\* a layer whose data the model does not hold (the encoder never reads it)
LayerShape(match, shape0, shape1) ==
    [match |-> match, shape |-> <<shape0, shape1>>, data |-> <<>>]

\* dataset.npz: ns samples of w inputs, with the labels ys
Dataset(ns, w, ys) ==
    [x |-> [shape |-> <<ns, w>>, data |-> [k \in 1..(ns * w) |-> k % 2]],
     y |-> ys]

RECURSIVE MaxShape1(_)
MaxShape1(ls) ==
    IF ls = <<>> THEN 0
    ELSE LET m == MaxShape1(Tail(ls))
         IN  IF Head(ls).shape[2] > m THEN Head(ls).shape[2] ELSE m

\* the state after the constructors of lines 36-55; the destination region
\* modelled is one float longer than the widest layer output and holds
\* values left by an earlier run.  status is not initialised by line 37; it
\* is assigned by the first status read before anything reads it.
InitWith(ls, c, ds, cells) ==
    /\ pc = 58
    /\ layers = ls
    /\ dataset = ds
    /\ core = c
    /\ it = 1
    /\ offset = 0
    /\ n = 0
    /\ cursor = [ch \in Channels |-> 0]
    /\ srcmem = [ch \in Channels |-> <<>>]
    /\ dstmem = [k \in 1..cells |-> MaxVal]
    /\ regs = [ch \in Channels |->
                 [srcAddr |-> 0, srcLen |-> 0, dstAddr |-> 0, dstLen |-> 0,
                  irqComplete |-> FALSE, irqError |-> FALSE, irqThreshold |-> 0]]
    /\ engine = [ch \in Channels |-> [d \in Directions |-> "Reset"]]
    /\ status = 0
    /\ dst_length = 0
    /\ results = <<>>
    /\ correct_classification = 0
    /\ maxElementIndex = 0
    /\ calls = <<>>
    /\ readLog = <<>>

\* networks of at most len layers, each layer as wide as the output before it
RECURSIVE Networks(_, _, _)
Networks(len, in, names) ==
    IF len = 0 THEN {<<>>}
    ELSE {<<>>} \cup
         {<<Layer(m, in, o)>> \o rest :
              m \in names, o \in 1..MaxOut, rest \in {<<>>}} \cup
         UNION {{<<Layer(m, in, o)>> \o rest : rest \in Networks(len - 1, o, names) \ {<<>>}} :
                   m \in names, o \in 1..MaxOut}

SetupNames == {"relu", ""}

\* the setup phase alone, over networks of up to MaxLayers layers
InitSetup ==
    \E in \in 1..MaxIn, c \in 1..MaxCore :
    \E ls \in Networks(MaxLayers, in, SetupNames) \ {<<>>} :
        InitWith(ls, c, Dataset(1, in, <<0>>), MaxShape1(ls) + 1)

NextSetup ==
    \/ WriteInstructionCount
    \/ LoadLayer
    \/ TileBlock
    \/ TileDone
    \/ ResetDestination

SpecSetup == InitSetup /\ [][NextSetup]_vars

----------------------------------------------------------------------------
(* The encoder alone, over widths across the whole 30-bit range *)

ActNames == {"sigmoid", "relu", "softmax", "tanh", ""}

EncWidths ==
    (0..EncSmall) \cup {2^30 - 1 - k : k \in 0..EncSmall} \cup {2^4, 2^15, 2^29}

InitEnc ==
    \E m \in ActNames, in \in EncWidths, out \in EncWidths :
        InitWith(<<LayerShape(m, in, out)>>, 1, Dataset(1, 1, <<0>>), 1)

NextEnc ==
    \/ WriteInstructionCount
    \/ LoadLayer

SpecEnc == InitEnc /\ [][NextEnc]_vars

----------------------------------------------------------------------------
(* The whole program *)

\* a one-layer network, and a two-layer network whose first layer is wider
\* than its last
RunNetworks ==
    {<<Layer("relu", MaxIn, RunOut)>>,
     <<Layer("relu", MaxIn, RunOut + 1), Layer("softmax", RunOut + 1, RunOut)>>}

\* the labels of ns samples: 0 and 1 in turn
Labels(ns) == [k \in 1..ns |-> (k - 1) % 2]

Init ==
    \E ls \in RunNetworks, ns \in 1..MaxSamples :
        InitWith(ls, MaxCore, Dataset(ns, MaxIn, Labels(ns)),
                 MaxShape1(ls) + 1)

Next ==
    \/ WriteInstructionCount
    \/ LoadLayer
    \/ TileBlock
    \/ TileDone
    \/ ResetDestination
    \/ LoadSample
    \/ StartClock
    \/ \E ch \in Channels : ResetChannel(ch)
    \/ \E ch \in Channels : HaltChannel(ch)
    \/ \E ch \in Channels : SetInterrupt(ch)
    \/ \E ch \in Channels : ReadyChannel(ch)
    \/ SetDestinationAddress
    \/ SetDestinationLength
    \/ \E ch \in Channels : SetSourceAddress(ch)
    \/ \E ch \in Channels : SetSourceLength(ch)
    \/ \E ch \in Channels : PollMM2S(ch)
    \/ PollS2MM
    \/ StopClock
    \/ ExtractResults
    \/ Classify
    \/ ClearResults
    \/ Finish

Spec == Init /\ [][Next]_vars

----------------------------------------------------------------------------
(* Notions the properties below are stated with *)

\* spec 4.2: a status is done-or-failed when one of bits 0, 1, 4, 12, 14 is set
DoneOrFailed(s) == \E b \in DoneBits : Bit(s, b) = 1

\* the calls of the current sample whose operation is in ops, in call order
CallsOf(ops) == SelectSeq(calls, LAMBDA c : c.op \in ops)

\* the number of calls among the first k - 1 whose operation is in ops
Before(k, ops) == Cardinality({j \in 1..(k - 1) : calls[j].op \in ops})

LastCall == calls[Len(calls)]

SourceOrder == <<"config", "io", "weight">>

ControlOps == {"reset", "halt", "setInterrupt", "ready"}
SourceOps  == {"setSourceAddress", "setSourceLength"}
DestOps    == {"setDestinationAddress", "setDestinationLength"}

----------------------------------------------------------------------------
(* C1: in every sample the source lengths are written in the order          *)
(* configuration, I/O, weight; when the I/O or the weight source address   *)
(* has been written and its length is about to be, the status last read is  *)
(* done-or-failed, and the MM2S transfer of the channel armed before it is  *)
(* no longer running, nor is it while a later channel is armed.             *)
C1_SourceArmOrder ==
    LET arms == CallsOf({"setSourceLength"})
    IN  /\ Len(arms) <= 3
        /\ \A k \in 1..Len(arms) : arms[k].ch = SourceOrder[k]
        /\ \A k \in 2..Len(arms) : engine[SourceOrder[k - 1]]["mm2s"] # "Running"
        /\ \A k \in 1..Len(calls) :
              calls[k].op = "setSourceAddress" =>
                 calls[k].ch = SourceOrder[Before(k, {"setSourceLength"}) + 1]
        /\ (calls # <<>> /\ LastCall.op = "setSourceAddress" /\ LastCall.ch # "config") =>
              /\ DoneOrFailed(status)
              /\ engine[IF LastCall.ch = "io" THEN "config" ELSE "io"]["mm2s"] # "Running"

\* the weight source is armed in the second sample
C1_Witness ==
    /\ n = 1
    /\ Len(CallsOf({"setSourceLength"})) = 3
    /\ engine["weight"]["mm2s"] = "Running"

(* C2: an iteration of any of the four polling loops leaves the loop if and *)
(* only if the status it has just read has one of bits 0, 1, 4, 12, 14 set; *)
(* otherwise the next step reads the same status register again.            *)
C2_PollExitIff ==
    [][\A line \in {PollLine(ch) : ch \in Channels} \cup {241} :
          pc = line => ((pc' # line) <=> DoneOrFailed(status'))]_vars

\* the S2MM loop keeps polling on a status with every bit set but the five
C2_Witness ==
    /\ pc = 241
    /\ status = OtherBits
    /\ engine["io"]["s2mm"] = "Running"

----------------------------------------------------------------------------
(* Setup properties *)

\* the instruction written for the layer just loaded
LastInstruction == srcmem["config"][Len(srcmem["config"])]

\* a layer's instruction has been written and its tiling has not begun
Encoded == pc = 97 /\ offset = 0 /\ cursor["weight"] = 0 /\ it = 1

(* C3: for widths below 2^30 and an activation code in 0..3 the instruction *)
(* written decodes to the layer's input width in bits[63:34], its output    *)
(* width in bits[33:4] and its activation code in bits[3:0], and no other   *)
(* triple of the domain encodes to the same word.                           *)
C3_EncodeRoundTrip ==
    Encoded =>
        LET layer == layers[it]
            w     == LastInstruction
        IN  /\ Field(w, 63, 34) = layer.shape[1]
            /\ Field(w, 33, 4) = layer.shape[2]
            /\ Field(w, 3, 0) = ActivationCode(layer.match)
            /\ \A in \in EncWidths, out \in EncWidths, a \in 0..3 :
                  EncodeInstruction(in, out, a) = w =>
                     /\ in = layer.shape[1]
                     /\ out = layer.shape[2]
                     /\ a = ActivationCode(layer.match)

\* both widths at the top of the 30-bit range, activation 3
C3_Witness ==
    /\ Encoded
    /\ layers[1].shape = <<2^30 - 1, 2^30 - 1>>
    /\ layers[1].match = "softmax"
    /\ Field(LastInstruction, 63, 34) = 2^30 - 1

\* the number of weights of the layers before layer k
RECURSIVE WeightsBefore(_)
WeightsBefore(k) ==
    IF k <= 1 THEN 0
    ELSE WeightsBefore(k - 1) + layers[k - 1].shape[1] * layers[k - 1].shape[2]

\* the tiling of layer it is complete
Tiled == pc = 97 /\ offset >= layers[it].shape[2]

\* the part of the weight stream written for layer it
LayerStream ==
    [k \in 1..(Len(srcmem["weight"]) - WeightsBefore(it)) |->
        srcmem["weight"][WeightsBefore(it) + k]]

\* where the claim places element (node, col) of a matrix with the given shape
StreamPosition(shape0, shape1, c, node, col) ==
    LET off   == (col \div c) * c
        range == Min(c, shape1 - off)
    IN  off * shape0 + node * range + (col - off)

(* C4: once a layer is tiled, its part of the weight stream has exactly     *)
(* inputWidth * outputWidth elements, element (node, col) of the matrix is  *)
(* at position offset*inputWidth + node*range + i, and these positions are  *)
(* all different: the stream is a permutation of the matrix that the        *)
(* inverse placement undoes.                                                *)
C4_TilePermutation ==
    Tiled =>
        LET layer  == layers[it]
            shape0 == layer.shape[1]
            shape1 == layer.shape[2]
            cells  == (0..(shape0 - 1)) \X (0..(shape1 - 1))
            pos(e) == StreamPosition(shape0, shape1, core, e[1], e[2])
        IN  /\ Len(LayerStream) = shape0 * shape1
            /\ \A e \in cells :
                  LayerStream[pos(e) + 1] = layer.data[e[1] * shape1 + e[2] + 1]
            /\ {pos(e) : e \in cells} = 0..(shape0 * shape1 - 1)
            /\ [k \in 1..(shape0 * shape1) |->
                   LayerStream[pos(<<(k - 1) \div shape1, (k - 1) % shape1>>) + 1]]
               = layer.data

\* a second layer of three columns tiled two at a time: the last block is narrower
C4_Witness ==
    /\ Tiled
    /\ it = 2
    /\ core = 2
    /\ layers[it].shape = <<2, 3>>
    /\ LayerStream = <<1, 2, 4, 5, 3, 6>>

\* (2 << 34) + (3 << 4) + 2: bits 35, 5, 4 and 1
ScenarioInstruction == [l \in Limbs |-> CASE l = 0 -> 50 [] l = 1 -> 0 [] l = 2 -> 8 [] l = 3 -> 0]

Scenario ==
    /\ layers = <<Layer("relu", 2, 3)>>
    /\ layers[1].data = <<1, 2, 3, 4, 5, 6>>
    /\ core = 1

(* C5: for the single relu layer [[1,2,3],[4,5,6]] and core = 1, setup ends *)
(* with the configuration buffer holding the count 1 and then the word      *)
(* (2<<34)+(3<<4)+2, and the weight buffer holding 1,4,2,5,3,6.             *)
C5_Scenario ==
    (Scenario /\ pc = 119) =>
        /\ srcmem["config"] = <<ToU64(1), ScenarioInstruction>>
        /\ srcmem["weight"] = <<1, 4, 2, 5, 3, 6>>
        /\ cursor["config"] = 16
        /\ cursor["weight"] = 24

C5_Witness ==
    /\ Scenario
    /\ pc = 119
    /\ Len(srcmem["weight"]) = 6
    /\ Field(srcmem["config"][2], 3, 0) = 2

----------------------------------------------------------------------------
(* Per-sample properties *)

\* the twelve initialisation calls of a sample, in order
InitCalls ==
    [k \in 1..12 |->
        [ch  |-> <<"config", "weight", "io">>[((k - 1) \div 4) + 1],
         op  |-> <<"reset", "halt", "setInterrupt", "ready">>[((k - 1) % 4) + 1],
         arg |-> IF (k - 1) % 4 = 2 THEN <<TRUE, TRUE, 0>> ELSE <<>>]]

(* C6: in every sample the initialisation calls made so far are the first   *)
(* of: reset, halt, setInterrupt(true, true, 0), ready on the configuration *)
(* channel, then on the weight channel, then on the I/O channel; and all    *)
(* twelve have been made before any address or length is written.           *)
C6_InitOrder ==
    LET ctl == CallsOf(ControlOps)
    IN  /\ Len(ctl) <= 12
        /\ \A k \in 1..Len(ctl) : ctl[k] = InitCalls[k]
        /\ \A k \in 1..Len(calls) :
              calls[k].op \in SourceOps \cup DestOps => Before(k, ControlOps) = 12
        /\ (pc \in 158..290) => Len(ctl) = 12

\* second sample: the twelve calls made and the destination address written
C6_Witness ==
    /\ n = 1
    /\ Len(CallsOf(ControlOps)) = 12
    /\ LastCall.op = "setDestinationAddress"

\* the output width of the last layer of the network
ResultWidth == layers[Len(layers)].shape[2]

(* C7: in every sample a source address or length is written only after     *)
(* the I/O destination address and then the I/O destination length have     *)
(* been written, and the destination length written is four times the       *)
(* output width of the last layer, in every sample.                         *)
C7_DestinationFirst ==
    /\ \A k \in 1..Len(calls) :
          calls[k].op \in SourceOps =>
             \E i \in 1..(k - 1) : \E j \in (i + 1)..(k - 1) :
                /\ calls[i].ch = "io" /\ calls[i].op = "setDestinationAddress"
                /\ calls[j].ch = "io" /\ calls[j].op = "setDestinationLength"
    /\ \A k \in 1..Len(calls) :
          calls[k].op = "setDestinationLength" =>
             /\ calls[k].ch = "io"
             /\ calls[k].arg = <<ResultWidth * 4>>
             /\ regs["io"].dstLen = ResultWidth * 4
    /\ Len(CallsOf(DestOps)) <= 2

\* second sample of a two-layer network whose first layer is wider
C7_Witness ==
    /\ n = 1
    /\ Len(layers) = 2
    /\ layers[1].shape[2] # ResultWidth
    /\ Len(calls) > 0
    /\ LastCall = [ch |-> "config", op |-> "setSourceAddress", arg |-> <<CONFIG_SRC_ADDR>>]

\* the sample's destination vector has been read, or is the next thing read
AtOrAfterRead == pc = 265 \/ results # <<>>

(* C8: the S2MM status is polled only once the weight source has been armed *)
(* and its MM2S transfer is no longer running; the destination buffer is    *)
(* read only when the status last read is done-or-failed and the S2MM       *)
(* transfer of the sample is no longer running.                             *)
C8_ReadAfterS2MM ==
    /\ pc = 241 =>
          /\ Len(CallsOf({"setSourceLength"})) = 3
          /\ engine["weight"]["mm2s"] = "CompletedOrError"
    /\ AtOrAfterRead =>
          /\ DoneOrFailed(status)
          /\ engine["io"]["s2mm"] = "CompletedOrError"
          /\ engine["weight"]["mm2s"] = "CompletedOrError"

\* second sample: the destination has been read after a transfer that wrote it
C8_Witness ==
    /\ n = 1
    /\ pc = 270
    /\ results # <<>>
    /\ engine["io"]["s2mm"] = "CompletedOrError"
    /\ \E k \in 1..dst_length : dstmem[k] # 0

(* C9: once a sample is classified, the class found is the smallest index   *)
(* holding the largest of the dst_length values read from the destination   *)
(* buffer for that sample, and the vector examined is exactly those values. *)
C9_FirstMaximum ==
    /\ pc = 270 =>
          /\ Len(results) = dst_length
          /\ results = DestinationValues
    /\ pc = 290 =>
          /\ results = DestinationValues
          /\ \A j \in 1..Len(results) : results[j] <= results[maxElementIndex + 1]
          /\ \A j \in 1..maxElementIndex : results[j] < results[maxElementIndex + 1]
          /\ readLog[n + 1] <=> (maxElementIndex = dataset.y[n + 1])

\* second sample: the largest value occurs twice and the first is found,
\* and the sample before it left another vector behind
C9_Witness ==
    /\ n = 1
    /\ pc = 290
    /\ \E i \in 1..Len(results) : \E j \in (i + 1)..Len(results) :
          /\ results[i] = MaxVal
          /\ results[j] = MaxVal
          /\ \A k \in 1..(i - 1) : results[k] < MaxVal
          /\ maxElementIndex = i - 1
          /\ i > 1

\* the samples whose classification is complete
Completed == IF pc = 290 THEN n + 1 ELSE n

(* C10: at every point the counter equals the number of completed samples   *)
(* for which the first index of the largest value read from the destination *)
(* for that sample equals the sample's label, so it lies in 0..k after k    *)
(* samples; and no step decrements it or adds more than one.                *)
C10_AccuracyCount ==
    /\ [](/\ correct_classification =
                Cardinality({j \in 1..Completed : readLog[j]})
          /\ correct_classification \in 0..Completed)
    /\ [][/\ correct_classification' \in {correct_classification,
                                          correct_classification + 1}
          /\ correct_classification' # correct_classification => pc = 270]_vars

\* two samples done, one of them classified correctly
C10_Witness ==
    /\ pc = 119
    /\ n = 2
    /\ correct_classification = 1
    /\ ~readLog[1]
    /\ readLog[2]

----------------------------------------------------------------------------
(* Setup as a whole *)

\* the number of layers whose instruction has been written
LayersLoaded == IF pc = 58 THEN 0 ELSE IF pc = 61 THEN it - 1 ELSE Min(it, Len(layers))

\* setup is over: the layer loop has ended
SetupDone == pc = 119

\* the part of the weight stream that belongs to layer k once setup is over
StreamOf(k) ==
    [j \in 1..(layers[k].shape[1] * layers[k].shape[2]) |->
        srcmem["weight"][WeightsBefore(k) + j]]

(* C11: the configuration buffer starts with the layer count, written before *)
(* any instruction, and then holds one instruction per layer loaded, the     *)
(* k-th describing the k-th layer; after setup over L layers it holds        *)
(* exactly L + 1 words with the cursor at 8 * (L + 1), and the weight buffer *)
(* holds the tiled weights of the layers in layer order, with its cursor at  *)
(* 4 times the sum of inputWidth * outputWidth.                              *)
C11_SetupBuffers ==
    /\ pc # 58 =>
          /\ srcmem["config"][1] = ToU64(Len(layers))
          /\ Len(srcmem["config"]) = LayersLoaded + 1
          /\ cursor["config"] = 8 * (LayersLoaded + 1)
          /\ \A k \in 1..LayersLoaded :
                LET w == srcmem["config"][k + 1]
                IN  /\ Field(w, 63, 34) = layers[k].shape[1]
                    /\ Field(w, 33, 4) = layers[k].shape[2]
                    /\ Field(w, 3, 0) = ActivationCode(layers[k].match)
    /\ pc = 58 => srcmem["config"] = <<>> /\ srcmem["weight"] = <<>>
    /\ SetupDone =>
          /\ LayersLoaded = Len(layers)
          /\ Len(srcmem["weight"]) = WeightsBefore(Len(layers) + 1)
          /\ cursor["weight"] = 4 * WeightsBefore(Len(layers) + 1)
          /\ \A k \in 1..Len(layers) :
                LET shape0 == layers[k].shape[1]
                    shape1 == layers[k].shape[2]
                IN  \A node \in 0..(shape0 - 1), col \in 0..(shape1 - 1) :
                       StreamOf(k)[StreamPosition(shape0, shape1, core, node, col) + 1]
                       = layers[k].data[node * shape1 + col + 1]

\* two layers of different shapes and activations, setup over
C11_Witness ==
    /\ SetupDone
    /\ Len(layers) = 2
    /\ layers[1].shape # layers[2].shape
    /\ layers[1].shape[1] # layers[1].shape[2]
    /\ layers[1].match # layers[2].match
    /\ Len(srcmem["config"]) = 3
    /\ cursor["weight"] = 4 * (layers[1].shape[1] * layers[1].shape[2]
                               + layers[2].shape[1] * layers[2].shape[2])

\* a block of the tiler is about to be read
AtBlock == pc = 97 /\ offset < layers[it].shape[2]

\* the indices of data the next block reads
NextBlock ==
    BlockIndices(layers[it].shape[1], layers[it].shape[2], offset,
                 TileRange(core, layers[it].shape[2], offset))

(* C12: for every shape and every core >= 1, also when outputWidth is not a *)
(* multiple of core or core exceeds outputWidth, each index                  *)
(* node * outputWidth + offset + i the tiler reads has offset + i below      *)
(* outputWidth and node below inputWidth, the range of the last block being  *)
(* outputWidth - offset; a tiled layer has added exactly its own weights.    *)
C12_TileInBounds ==
    /\ core >= 1
    /\ AtBlock =>
          LET shape0 == layers[it].shape[1]
              shape1 == layers[it].shape[2]
              range  == TileRange(core, shape1, offset)
          IN  /\ range >= 1
              /\ offset + range <= shape1
              /\ offset + core >= shape1 => range = shape1 - offset
              /\ Len(NextBlock) = shape0 * range
              /\ \A k \in 1..Len(NextBlock) :
                    /\ NextBlock[k] \div shape1 < shape0
                    /\ NextBlock[k] % shape1 >= offset
                    /\ NextBlock[k] % shape1 < offset + range
                    /\ NextBlock[k] < Len(layers[it].data)
    /\ Tiled => Len(srcmem["weight"]) = WeightsBefore(it + 1)

\* the last block of a width that is not a multiple of core has been written,
\* and a core above the width is a case of its own
C12_Witness ==
    /\ Tiled
    /\ layers[it].shape[2] % core # 0
    /\ core < layers[it].shape[2]
    /\ layers[it].shape[1] > 1
    /\ Len(srcmem["weight"]) = WeightsBefore(it + 1)

----------------------------------------------------------------------------
(* Polling outcomes *)

\* the lines of the four status reads
PollLines == {171, 195, 219, 241}

\* the statement that follows each polling loop in the program text
ExitOf(line) ==
    CASE line = 171 -> 186 [] line = 195 -> 210 [] line = 219 -> 241
      [] line = 241 -> 255

\* DMADecErr/SlvErr or Err_Irq
ErrorStatus(s) == Bit(s, 4) = 1 \/ Bit(s, 14) = 1

\* Idle or IOC_Irq
CompletionStatus(s) == Bit(s, 1) = 1 \/ Bit(s, 12) = 1

\* the number of calls of op made on channel ch in this sample
TimesCalled(ch, op) ==
    Cardinality({k \in 1..Len(calls) : calls[k].ch = ch /\ calls[k].op = op})

(* C13: a status read with an error bit (4 or 14) ends the polling loop and *)
(* leads to the same next statement as one with a completion bit (1 or 12); *)
(* the step changes nothing but the status read and the position, so no     *)
(* error is recorded and nothing is re-armed: whatever the statuses were,   *)
(* each length register is written once per sample, all four are written by *)
(* the time the results are read, and every sample is classified and        *)
(* counted by the end of the run.                                           *)
C13_ErrorAsCompletion ==
    /\ [][(pc \in PollLines /\ (ErrorStatus(status') \/ CompletionStatus(status'))) =>
             /\ pc' = ExitOf(pc)
             /\ UNCHANGED <<calls, regs, cursor, srcmem, n, results, readLog,
                            correct_classification, maxElementIndex, dst_length>>]_vars
    /\ [](/\ \A ch \in Channels : TimesCalled(ch, "setSourceLength") <= 1
          /\ TimesCalled("io", "setDestinationLength") <= 1
          /\ pc \in {265, 270, 290} =>
                /\ \A ch \in Channels : TimesCalled(ch, "setSourceLength") = 1
                /\ TimesCalled("io", "setDestinationLength") = 1
          /\ pc = 290 => Len(readLog) = n + 1
          /\ pc = 298 => Len(readLog) = dataset.x.shape[1])

\* the last poll of a sample ended on Err_Irq alone and the sample was
\* classified and counted all the same
C13_Witness ==
    /\ pc = 290
    /\ ErrorStatus(status)
    /\ ~CompletionStatus(status)
    /\ Bit(status, 0) = 0
    /\ Len(readLog) = n + 1
    /\ readLog[n + 1]
    /\ correct_classification >= 1

\* what the program itself can change: everything but the status read, the
\* engines and the destination buffer the accelerator writes
programVars ==
    <<layers, dataset, core, it, offset, n, cursor, srcmem, regs, dst_length,
      results, correct_classification, maxElementIndex, calls, readLog>>

(* C14: an iteration of a polling loop whose status read has none of the    *)
(* bits 0, 1, 4, 12, 14 leaves the program where it was, at the same        *)
(* status read with every variable of the program unchanged: the loops keep *)
(* no poll count and have no timeout, so as long as no read has one of the  *)
(* bits the program stays in that loop, arms no later channel, reads no     *)
(* result, starts no further sample and does not terminate.                 *)
C14_PollsForever ==
    [][(pc \in PollLines /\ ~DoneOrFailed(status')) =>
          /\ pc' = pc
          /\ UNCHANGED programVars]_vars

\* in the S2MM loop of the second sample after a read with none of the bits
C14_Witness ==
    /\ pc = 241
    /\ n = 1
    /\ status = OtherBits
    /\ engine["io"]["s2mm"] = "Running"

----------------------------------------------------------------------------
(* Timing window, main.cpp lines 139 and 255-257 *)

\* the positions in the call history of the calls of op
PositionsOf(op) == {k \in 1..Len(calls) : calls[k].op = op}

\* the stop timestamp comes after all twenty channel calls of the sample,
\* when the S2MM transfer has been polled to its end, and before the read
StopWindow ==
    /\ \A k \in PositionsOf("stop") :
          /\ Before(k, ControlOps) = 12
          /\ Before(k, DestOps) = 2
          /\ Before(k, SourceOps) = 6
          /\ Before(k, {"start"}) = 1
    /\ pc = 255 =>
          /\ DoneOrFailed(status)
          /\ engine["io"]["s2mm"] = "CompletedOrError"
          /\ results = <<>>
          /\ PositionsOf("stop") = {}
    /\ AtOrAfterRead => PositionsOf("stop") = {Len(calls)}

(* C15 as stated: the start timestamp is taken after the three channels are *)
(* initialised and the I/O destination is configured and before the         *)
(* configuration source is armed, and the stop timestamp after the S2MM     *)
(* poll ends and before the results are read.                               *)
C15_ClockAfterInit ==
    /\ \A k \in PositionsOf("start") :
          /\ Before(k, ControlOps) = 12
          /\ Before(k, DestOps) = 2
          /\ Before(k, SourceOps) = 0
    /\ StopWindow

(* C15 amended: the start timestamp is taken once the sample's input is in  *)
(* the I/O buffer and before the first channel is reset, so the elapsed     *)
(* time covers the initialisation of the three channels and the destination *)
(* configuration as well as the transfers (steps 2 to 7); the stop          *)
(* timestamp is taken after the S2MM poll ends and before results are read. *)
C15_ClockWindow ==
    /\ pc = 139 =>
          /\ calls = <<>>
          /\ cursor["io"] = 4 * dataset.x.shape[2]
    /\ calls # <<>> => PositionsOf("start") = {1}
    /\ pc \in 142..265 => PositionsOf("start") = {1}
    /\ \A ch \in Channels : pc \in 139..142 => engine[ch]["mm2s"] # "Ready"
    /\ StopWindow

\* second sample: both timestamps taken, the start before the first reset and
\* the stop after the last of the twenty channel calls
C15_Witness ==
    /\ pc = 265
    /\ n = 1
    /\ Len(calls) = 22
    /\ calls[1].op = "start"
    /\ calls[2] = [ch |-> "config", op |-> "reset", arg |-> <<>>]
    /\ calls[21].op = "setSourceLength"
    /\ calls[22].op = "stop"

----------------------------------------------------------------------------
(* Encoder on widths outside the 30-bit fields, main.cpp lines 87-92 *)

\* widths on both sides of the 2^30 boundary
WideWidths == {1, 2^30 - 1, 2^30, 2^30 + 1, (2^30 - 1) + 2^30}

InitEncWide ==
    \E m \in ActNames, in \in WideWidths, out \in WideWidths :
        InitWith(<<LayerShape(m, in, out)>>, 1, Dataset(1, 1, <<0>>), 1)

SpecEncWide == InitEncWide /\ [][NextEnc]_vars

(* C16: a layer whose input or output width is 2^30 or more is rejected     *)
(* before any instruction word is written for it, so every instruction in   *)
(* the configuration buffer has the widths of its layer in bits[63:34] and  *)
(* bits[33:4], neither truncated nor overlapping.                           *)
C16_RejectsWide ==
    \A k \in 1..LayersLoaded :
        /\ layers[k].shape[1] < 2^30
        /\ layers[k].shape[2] < 2^30
        /\ Field(srcmem["config"][k + 1], 63, 34) = layers[k].shape[1]
        /\ Field(srcmem["config"][k + 1], 33, 4) = layers[k].shape[2]

----------------------------------------------------------------------------
(* Buffers across samples *)

\* the sample loop has been entered
InSamples == pc >= 119

\* the configuration buffer as setup leaves it
ConfigImage ==
    <<ToU64(Len(layers))>> \o
    [k \in 1..Len(layers) |->
        EncodeInstruction(layers[k].shape[1], layers[k].shape[2],
                          ActivationCode(layers[k].match))]

\* the weight buffer holds every layer's matrix, tiled, in layer order
WeightImage ==
    /\ Len(srcmem["weight"]) = WeightsBefore(Len(layers) + 1)
    /\ \A k \in 1..Len(layers) :
          LET shape0 == layers[k].shape[1]
              shape1 == layers[k].shape[2]
          IN  \A node \in 0..(shape0 - 1), col \in 0..(shape1 - 1) :
                 StreamOf(k)[StreamPosition(shape0, shape1, core, node, col) + 1]
                 = layers[k].data[node * shape1 + col + 1]

\* the source length a sample arms on channel ch
ArmedLength(ch) ==
    CASE ch = "config" -> 8 * (Len(layers) + 1)
      [] ch = "weight" -> 4 * WeightsBefore(Len(layers) + 1)
      [] ch = "io"     -> 4 * dataset.x.shape[2]

(* C17: in the sample loop the configuration and weight buffers and their   *)
(* cursors stay as setup left them, so the source length armed for them is  *)
(* the same in every sample; the I/O source cursor is reset at the start of *)
(* each sample, so the I/O source holds that sample's input and the length  *)
(* armed for it is inputWidth * 4 in every sample.                          *)
C17_BuffersAcrossSamples ==
    /\ InSamples =>
          /\ srcmem["config"] = ConfigImage
          /\ WeightImage
          /\ cursor["config"] = ArmedLength("config")
          /\ cursor["weight"] = ArmedLength("weight")
    /\ pc \in 139..290 =>
          /\ cursor["io"] = ArmedLength("io")
          /\ srcmem["io"] = SampleInput(n)
    /\ \A k \in 1..Len(calls) :
          calls[k].op = "setSourceLength" =>
             /\ calls[k].arg = <<ArmedLength(calls[k].ch)>>
             /\ regs[calls[k].ch].srcLen = ArmedLength(calls[k].ch)

\* second sample, all three sources armed, a two-layer network
C17_Witness ==
    /\ n = 1
    /\ pc = 219
    /\ Len(layers) = 2
    /\ TimesCalled("weight", "setSourceLength") = 1
    /\ regs["io"].srcLen = 4 * dataset.x.shape[2]
    /\ regs["config"].srcLen = 24
    /\ srcmem["io"] = SampleInput(1)

----------------------------------------------------------------------------
(* Engine state machine *)

\* the calls that write a length register
LengthOps == {"setSourceLength", "setDestinationLength"}

\* the direction a length register belongs to
DirectionOf(op) == IF op = "setSourceLength" THEN "mm2s" ELSE "s2mm"

\* call k was made on a channel made ready earlier in the sample and neither
\* reset nor halted since
ReadyBefore(k) ==
    \E j \in 1..(k - 1) :
        /\ calls[j].ch = calls[k].ch
        /\ calls[j].op = "ready"
        /\ \A i \in (j + 1)..(k - 1) :
              ~(calls[i].ch = calls[k].ch /\ calls[i].op \in {"reset", "halt"})

(* C18: every length register write (the three source arms and the I/O      *)
(* destination arm) finds its engine Ready, after a ready() of that channel  *)
(* in the same sample with no reset() or halt() since; each of the four      *)
(* directions is armed once per sample; and a channel is reset, halted or    *)
(* armed again only when none of its transfers is Running.                   *)
C18_EngineProtocol ==
    /\ \A ch \in Channels : pc = ArmLine(ch) + 1 => engine[ch]["mm2s"] = "Ready"
    /\ pc = 159 => engine["io"]["s2mm"] = "Ready"
    /\ \A k \in 1..Len(calls) :
          calls[k].op \in LengthOps =>
             /\ ReadyBefore(k)
             /\ \A j \in 1..(k - 1) :
                   ~(calls[j].ch = calls[k].ch /\ calls[j].op = calls[k].op)
             /\ engine[calls[k].ch][DirectionOf(calls[k].op)]
                   \in {"Running", "CompletedOrError"}
    /\ pc \in {255, 265, 270, 290} =>
          /\ \A ch \in Channels : TimesCalled(ch, "setSourceLength") = 1
          /\ TimesCalled("io", "setDestinationLength") = 1
          /\ \A ch \in {"config", "weight"} :
                TimesCalled(ch, "setDestinationLength") = 0
    /\ \A ch \in Channels :
          pc \in {InitLine(ch), InitLine(ch) + 1} =>
             \A d \in Directions : engine[ch][d] # "Running"

\* second sample: the I/O source has just been armed while the I/O
\* destination transfer armed before it is running
C18_Witness ==
    /\ n = 1
    /\ pc = 195
    /\ LastCall.ch = "io"
    /\ LastCall.op = "setSourceLength"
    /\ engine["io"]["mm2s"] = "Running"
    /\ engine["io"]["s2mm"] = "Running"
    /\ engine["config"]["mm2s"] = "CompletedOrError"
    /\ engine["weight"]["mm2s"] = "Ready"

----------------------------------------------------------------------------
(* The run under responsive hardware *)

\* an MM2S status read that finds one of the done bits set by the hardware
PollEnds(ch) == PollMM2S(ch) /\ DoneOrFailed(status')

\* an S2MM status read that finds one of the done bits set by the hardware
S2MMEnds == PollS2MM /\ DoneOrFailed(status')

\* the program keeps executing, and after every arm the hardware eventually
\* presents a status with a done bit
Responsive ==
    /\ WF_vars(Next)
    /\ \A ch \in Channels : WF_vars(PollEnds(ch))
    /\ WF_vars(S2MMEnds)

\* a run over 1..MaxSamples samples of one input each and a layer of two outputs
InitFair ==
    \E ns \in 1..MaxSamples :
        InitWith(<<Layer("relu", 1, 2)>>, 1, Dataset(ns, 1, Labels(ns)), 2)

SpecFair == InitFair /\ [][Next]_vars /\ Responsive

\* every engine direction the sample arms has been polled to its end
AllPolled ==
    /\ \A ch \in Channels : engine[ch]["mm2s"] = "CompletedOrError"
    /\ engine["io"]["s2mm"] = "CompletedOrError"

(* C19: when the hardware eventually sets a done bit after every arm, the   *)
(* run terminates, and it does so having processed every sample once, in    *)
(* increasing index order: the sample index only ever goes up by one, after *)
(* that sample's four transfers were polled to their end and its result     *)
(* recorded, and the run ends with the index at the sample count.           *)
C19_EverySampleOnce ==
    /\ <>(pc = 298)
    /\ [](/\ pc = 298 => n = dataset.x.shape[1] /\ Len(readLog) = n
          /\ pc \in 139..290 => n < dataset.x.shape[1]
          /\ pc \in {265, 270, 290} => AllPolled
          /\ Len(readLog) = (IF pc \in {270, 290} THEN n + 1 ELSE n))
    /\ [][n' # n => (n' = n + 1 /\ pc = 290 /\ AllPolled /\ Len(readLog) = n')]_vars

\* the run has ended after the last of MaxSamples samples
C19_Witness ==
    /\ pc = 298
    /\ n = MaxSamples
    /\ Len(readLog) = MaxSamples
    /\ AllPolled

----------------------------------------------------------------------------
(* Tiler termination, main.cpp lines 34 and 97-107 *)

\* setup for every core value the command line can give, zero included
InitTile ==
    \E in \in 1..MaxIn, c \in 0..MaxCore :
    \E ls \in Networks(MaxLayers, in, SetupNames) \ {<<>>} :
        InitWith(ls, c, Dataset(1, in, <<0>>), MaxShape1(ls) + 1)

SpecTile == InitTile /\ [][NextSetup]_vars /\ WF_vars(NextSetup)

(* C20: for every core >= 0 and every layer of at least one output column   *)
(* the tiling loop terminates having emitted inputWidth * outputWidth       *)
(* weights: until setup is over some statement can always be executed that  *)
(* changes the state of the program, the offset of a block about to be read *)
(* is one the loop leaves behind, and a layer whose loop has ended has      *)
(* added exactly its own weights to the stream.                             *)
C20_TilingTerminates ==
    /\ SetupDone \/ ENABLED <<NextSetup>>_vars
    /\ AtBlock => offset + core > offset
    /\ Tiled => Len(srcmem["weight"]) = WeightsBefore(it + 1)

====
